---- MODULE Spec2Model ----
(***************************************************************************)
(* Model of nanobot.bus.queue.MessageBus: per-session inbound queues kept  *)
(* in a registry, a dispatch queue of session keys and a shared outbound   *)
(* queue.  Every queue is an asyncio.Queue with unbounded capacity: put    *)
(* never suspends, get suspends exactly when the queue is empty.  Tasks    *)
(* run on one cooperative event loop, so a step runs from one suspension   *)
(* point to the next without interleaving.                                 *)
(***************************************************************************)
EXTENDS Integers, Sequences, FiniteSets, TLC

\* ---- bounds of the model ------------------------------------------------
MaxInbound == 3      \* inbound messages published in one behaviour
MaxOutbound == 2     \* outbound messages published in one behaviour
MaxQueues == 2       \* session queue objects created in one behaviour
MaxInterleaved == 1  \* inbound messages published between outbound operations (OutboundSpec)

Keys == {"u1", "u2"}             \* session keys the producers use
Tasks == {"t1", "t2"}            \* tasks that read from the bus
None == 0                        \* no queue object / dict.get() miss
NoKey == "none"                  \* no token held

VARIABLES
    session_queues,  \* self._session_queues: key -> queue object id, None when absent
    heap,            \* the asyncio.Queue objects created for sessions, by id
    dispatch,        \* self._dispatch
    outbound,        \* self.outbound
    pc,              \* where each task stands: idle, or suspended/woken in a get()
    ref,             \* the queue object each task got from get_session_queue
    tok,             \* the key a consumer-loop task got from consume_dispatch (LoopSpec only)
    phase,           \* position of a task in the consumer loop (LoopSpec only)
    pub_in,          \* history: inbound messages in publish order
    popped,          \* history: per session key, the messages in the order consumers popped them
    tokens,          \* history: keys in the order consume_dispatch returned them
    pub_out,         \* history: outbound messages in publish order
    got_out,         \* history: outbound messages in the order consume_outbound returned them
    last,            \* history: the operation that returned in the last step, its key,
                     \* and whether it created a queue object
    ready,           \* the event loop's ready queue: tasks scheduled to run, oldest first
                     \* (kept by the specifications that schedule wake-ups in order)
    order            \* history: the tasks suspended in a read, in the order they suspended

bus == <<session_queues, heap, dispatch, outbound>>
hist == <<pub_in, popped, tokens, pub_out, got_out>>
vars == <<session_queues, heap, dispatch, outbound, pc, ref, tok, phase,
          pub_in, popped, tokens, pub_out, got_out, last, ready, order>>

\* ---- asyncio.Queue ------------------------------------------------------
\* A queue object: its items (a deque) and the tasks suspended in get().
Queue == [items |-> <<>>, getters |-> <<>>]

empty(q) == q.items = <<>>

qsize(q) == Len(q.items)

\* pc of a task whose pending get() was cancelled: its future is done
\* (cancelled) but the task has not run yet, so it is still a listed waiter.
CancelledWait == {"dispatch_wait_cancelled", "outbound_wait_cancelled"}

\* pc of a task cancelled after a put had already woken it.
CancelledWoken == {"dispatch_woken_cancelled", "outbound_woken_cancelled"}

\* Queue._wakeup_next skips the waiters whose future is already done.
RECURSIVE skip_done(_)
skip_done(g) ==
    IF g # <<>> /\ pc[Head(g)] \in CancelledWait THEN skip_done(Tail(g)) ELSE g

\* Faulty variant: the waiter that suspended last is woken.
wakeup_next_lifo(q) ==
    LET g == SelectSeq(q.getters, LAMBDA u : pc[u] \notin CancelledWait)
    IN  IF g = <<>> THEN [q |-> [q EXCEPT !.getters = <<>>], woken |-> {}]
        ELSE [q |-> [q EXCEPT !.getters = SubSeq(g, 1, Len(g) - 1)],
              woken |-> {g[Len(g)]}]

\* Queue._wakeup_next: waiters are taken off the list, oldest first, until one
\* whose future is not done is found; that one is woken.
wakeup_next(q) ==
    LET g == skip_done(q.getters)
    IN  IF g = <<>> THEN [q |-> [q EXCEPT !.getters = <<>>], woken |-> {}]
        ELSE [q |-> [q EXCEPT !.getters = Tail(g)], woken |-> {Head(g)}]

\* Faulty variant: put_nowait that appends the item and wakes no waiter.
put_silent(q, item) ==
    [q |-> [q EXCEPT !.items = Append(@, item)], woken |-> {}]

\* Queue.put on an unbounded queue: full() is never true, so the item is
\* appended and the next getter woken, without suspending.
put(q, item) == wakeup_next([q EXCEPT !.items = Append(@, item)])

\* One run of Queue.get by task t, from the call or from a wake-up: while the
\* queue is empty, t joins the waiters; otherwise the oldest item is removed.
get(q, t) ==
    IF empty(q)
    THEN [q |-> [q EXCEPT !.getters = Append(@, t)], done |-> FALSE, item |-> None]
    ELSE [q |-> [q EXCEPT !.items = Tail(@)], done |-> TRUE, item |-> Head(q.items)]

\* Faulty variant: an except branch that only leaves the waiter list and
\* never hands a wake-up it had received to the next waiter.
get_cancelled_no_handoff(q, t, was_woken) ==
    [q |-> [q EXCEPT !.getters = SelectSeq(@, LAMBDA u : u # t)], woken |-> {}]

\* The except branch of Queue.get, run by task t when it is cancelled at its
\* await: t leaves the waiter list; if t had been woken by a put and the queue
\* is not empty, the next waiter is woken in its place.
get_cancelled(q, t, was_woken) ==
    LET q1 == [q EXCEPT !.getters = SelectSeq(@, LAMBDA u : u # t)]
    IN  IF ~empty(q) /\ was_woken THEN wakeup_next(q1) ELSE [q |-> q1, woken |-> {}]

\* The value of last after a get() that suspended its caller.
Suspended == [op |-> "suspend", key |-> NoKey, new |-> FALSE]

\* pc of the tasks after the tasks in W, suspended in a get(), were woken.
wake(W, woken) == [t \in Tasks |-> IF t \in W THEN woken ELSE pc[t]]

\* pc of task t after one run of a get() on some queue.
after_get(t, r, waiting) == [pc EXCEPT ![t] = IF r.done THEN "idle" ELSE waiting]

\* ---- MessageBus ---------------------------------------------------------
Init ==
    /\ session_queues = [k \in Keys |-> None]
    /\ heap = <<>>
    /\ dispatch = Queue
    /\ outbound = Queue
    /\ pc = [t \in Tasks |-> "idle"]
    /\ ref = [t \in Tasks |-> None]
    /\ tok = [t \in Tasks |-> NoKey]
    /\ phase = [t \in Tasks |-> "dispatch"]
    /\ pub_in = <<>>
    /\ popped = [k \in Keys |-> <<>>]
    /\ tokens = <<>>
    /\ pub_out = <<>>
    /\ got_out = <<>>
    /\ last = [op |-> "init", key |-> NoKey, new |-> FALSE]
    /\ ready = <<>>
    /\ order = <<>>

\* Faulty variant: the membership test is missing, so every access creates a queue.
get_or_create_always_new(key) ==
    [session_queues |-> [session_queues EXCEPT ![key] = Len(heap) + 1],
     heap |-> Append(heap, Queue),
     q |-> Len(heap) + 1]

\* _get_or_create_session_queue(key): the registry and heap after the call,
\* and the queue object returned.
get_or_create_session_queue(key) ==
    IF session_queues[key] = None
    THEN [session_queues |-> [session_queues EXCEPT ![key] = Len(heap) + 1],
          heap |-> Append(heap, Queue),
          q |-> Len(heap) + 1]
    ELSE [session_queues |-> session_queues, heap |-> heap, q |-> session_queues[key]]

\* Whether the model's bound on queue objects allows an access of key.
CanAccess(key) == session_queues[key] # None \/ Len(heap) < MaxQueues

\* Faulty variant: the message is put at the head of its session queue.
publish_inbound_lifo(msg) ==
    LET key == msg.session_key
        r == get_or_create_session_queue(key)
        q == r.heap[r.q]
        p == wakeup_next([q EXCEPT !.items = <<msg>> \o @])
        d == put(dispatch, key)
    IN  /\ Len(pub_in) < MaxInbound
        /\ CanAccess(key)
        /\ session_queues' = r.session_queues
        /\ heap' = [r.heap EXCEPT ![r.q] = p.q]
        /\ dispatch' = d.q
        /\ pc' = [t \in Tasks |-> IF t \in p.woken THEN "session_woken"
                                  ELSE IF t \in d.woken THEN "dispatch_woken"
                                  ELSE pc[t]]
        /\ pub_in' = Append(pub_in, msg)
        /\ last' = [op |-> "publish_inbound", key |-> key,
                    new |-> session_queues[key] = None]
        /\ UNCHANGED <<outbound, ref, popped, tokens, pub_out, got_out>>

\* Faulty variant: the dispatcher is notified only when the key is not yet waiting in
\* the dispatch queue (tokens deduplicated).
publish_inbound_dedup(msg) ==
    LET key == msg.session_key
        r == get_or_create_session_queue(key)
        p == put(r.heap[r.q], msg)
        d == IF \E i \in 1..Len(dispatch.items) : dispatch.items[i] = key
             THEN [q |-> dispatch, woken |-> {}]
             ELSE put(dispatch, key)
    IN  /\ Len(pub_in) < MaxInbound
        /\ CanAccess(key)
        /\ session_queues' = r.session_queues
        /\ heap' = [r.heap EXCEPT ![r.q] = p.q]
        /\ dispatch' = d.q
        /\ pc' = [t \in Tasks |-> IF t \in p.woken THEN "session_woken"
                                  ELSE IF t \in d.woken THEN "dispatch_woken"
                                  ELSE pc[t]]
        /\ pub_in' = Append(pub_in, msg)
        /\ last' = [op |-> "publish_inbound", key |-> key,
                    new |-> session_queues[key] = None]
        /\ UNCHANGED <<outbound, ref, popped, tokens, pub_out, got_out>>

\* Faulty variant: the token is put at the head of the dispatch queue.
publish_inbound_token_first(msg) ==
    LET key == msg.session_key
        r == get_or_create_session_queue(key)
        p == put(r.heap[r.q], msg)
        d == wakeup_next([dispatch EXCEPT !.items = <<key>> \o @])
    IN  /\ Len(pub_in) < MaxInbound
        /\ CanAccess(key)
        /\ session_queues' = r.session_queues
        /\ heap' = [r.heap EXCEPT ![r.q] = p.q]
        /\ dispatch' = d.q
        /\ pc' = [t \in Tasks |-> IF t \in p.woken THEN "session_woken"
                                  ELSE IF t \in d.woken THEN "dispatch_woken"
                                  ELSE pc[t]]
        /\ pub_in' = Append(pub_in, msg)
        /\ last' = [op |-> "publish_inbound", key |-> key,
                    new |-> session_queues[key] = None]
        /\ UNCHANGED <<outbound, ref, popped, tokens, pub_out, got_out>>

\* Faulty variant: the dispatch queue is bounded (maxsize 1), so the put of the
\* token has to wait while a token is queued.
publish_inbound_bounded(msg) ==
    LET key == msg.session_key
        r == get_or_create_session_queue(key)
        p == put(r.heap[r.q], msg)
        d == put(dispatch, key)
    IN  /\ Len(pub_in) < MaxInbound
        /\ CanAccess(key)
        /\ Len(dispatch.items) < 1
        /\ session_queues' = r.session_queues
        /\ heap' = [r.heap EXCEPT ![r.q] = p.q]
        /\ dispatch' = d.q
        /\ pc' = [t \in Tasks |-> IF t \in p.woken THEN "session_woken"
                                  ELSE IF t \in d.woken THEN "dispatch_woken"
                                  ELSE pc[t]]
        /\ pub_in' = Append(pub_in, msg)
        /\ last' = [op |-> "publish_inbound", key |-> key,
                    new |-> session_queues[key] = None]
        /\ UNCHANGED <<outbound, ref, popped, tokens, pub_out, got_out>>

\* publish_inbound(msg): both puts complete without suspending, so the whole
\* call is one step of the event loop.
publish_inbound(msg) ==
    LET key == msg.session_key
        r == get_or_create_session_queue(key)
        p == put(r.heap[r.q], msg)
        d == put(dispatch, key)
    IN  /\ Len(pub_in) < MaxInbound
        /\ CanAccess(key)
        /\ session_queues' = r.session_queues
        /\ heap' = [r.heap EXCEPT ![r.q] = p.q]
        /\ dispatch' = d.q
        /\ pc' = [t \in Tasks |-> IF t \in p.woken THEN "session_woken"
                                  ELSE IF t \in d.woken THEN "dispatch_woken"
                                  ELSE pc[t]]
        /\ pub_in' = Append(pub_in, msg)
        /\ last' = [op |-> "publish_inbound", key |-> key,
                    new |-> session_queues[key] = None]
        /\ UNCHANGED <<outbound, ref, popped, tokens, pub_out, got_out>>

\* Faulty variant: the oldest token is returned but left in the dispatch queue.
consume_dispatch_peek(t) ==
    LET r == get(dispatch, t)
    IN  /\ pc[t] \in {"idle", "dispatch_woken"}
        /\ dispatch' = IF r.done THEN dispatch ELSE r.q
        /\ pc' = after_get(t, r, "dispatch_wait")
        /\ tokens' = IF r.done THEN Append(tokens, r.item) ELSE tokens
        /\ last' = IF r.done THEN [op |-> "consume_dispatch", key |-> r.item, new |-> FALSE] ELSE Suspended
        /\ UNCHANGED <<session_queues, heap, outbound, ref, pub_in, popped, pub_out, got_out>>

\* consume_dispatch() by task t: the call, or its resumption after a wake-up.
consume_dispatch(t) ==
    LET r == get(dispatch, t)
    IN  /\ pc[t] \in {"idle", "dispatch_woken"}
        /\ dispatch' = r.q
        /\ pc' = after_get(t, r, "dispatch_wait")
        /\ tokens' = IF r.done THEN Append(tokens, r.item) ELSE tokens
        /\ last' = IF r.done THEN [op |-> "consume_dispatch", key |-> r.item, new |-> FALSE] ELSE Suspended
        /\ UNCHANGED <<session_queues, heap, outbound, ref, pub_in, popped, pub_out, got_out>>

\* get_session_queue(key) by task t, which keeps the returned queue object.
get_session_queue(t, key) ==
    LET r == get_or_create_session_queue(key)
    IN  /\ pc[t] = "idle"
        /\ CanAccess(key)
        /\ session_queues' = r.session_queues
        /\ heap' = r.heap
        /\ ref' = [ref EXCEPT ![t] = r.q]
        /\ last' = [op |-> "get_session_queue", key |-> key,
                    new |-> session_queues[key] = None]
        /\ UNCHANGED <<dispatch, outbound, pc, hist>>

\* Faulty variant: popping the last message of a queue also removes the
\* queue's registry entry.
session_get_reclaiming(t) ==
    LET r == get(heap[ref[t]], t)
    IN  /\ pc[t] \in {"idle", "session_woken"}
        /\ ref[t] # None
        /\ heap' = [heap EXCEPT ![ref[t]] = r.q]
        /\ pc' = after_get(t, r, "session_wait")
        /\ popped' = IF r.done THEN [popped EXCEPT ![r.item.session_key] = Append(@, r.item)]
                     ELSE popped
        /\ last' = IF r.done THEN [op |-> "get", key |-> r.item.session_key, new |-> FALSE] ELSE Suspended
        /\ session_queues' = [k \in Keys |->
                                 IF r.done /\ empty(r.q) /\ session_queues[k] = ref[t]
                                 THEN None ELSE session_queues[k]]
        /\ UNCHANGED <<dispatch, outbound, ref, pub_in, tokens, pub_out, got_out>>

\* The consumer's read of the queue object it holds: await q.get().
session_get(t) ==
    LET r == get(heap[ref[t]], t)
    IN  /\ pc[t] \in {"idle", "session_woken"}
        /\ ref[t] # None
        /\ heap' = [heap EXCEPT ![ref[t]] = r.q]
        /\ pc' = after_get(t, r, "session_wait")
        /\ popped' = IF r.done THEN [popped EXCEPT ![r.item.session_key] = Append(@, r.item)]
                     ELSE popped
        /\ last' = IF r.done THEN [op |-> "get", key |-> r.item.session_key, new |-> FALSE] ELSE Suspended
        /\ UNCHANGED <<session_queues, dispatch, outbound, ref, pub_in, tokens, pub_out, got_out>>

\* Faulty variant: the queue is removed without the emptiness test.
drop_session_queue_always(key) ==
    /\ session_queues' = [session_queues EXCEPT ![key] = None]
    /\ last' = [op |-> "drop_session_queue", key |-> key, new |-> FALSE]
    /\ UNCHANGED <<heap, dispatch, outbound, pc, ref, hist>>

\* Faulty variant: the emptiness test is inverted.
drop_session_queue_inverted(key) ==
    LET q == session_queues[key]
    IN  /\ session_queues' = IF q # None /\ ~empty(heap[q])
                             THEN [session_queues EXCEPT ![key] = None]
                             ELSE session_queues
        /\ last' = [op |-> "drop_session_queue", key |-> key, new |-> FALSE]
        /\ UNCHANGED <<heap, dispatch, outbound, pc, ref, hist>>

\* Faulty variant: dropping a queue also purges the key's tokens from the dispatch queue.
drop_session_queue_purging(key) ==
    LET q == session_queues[key]
    IN  /\ session_queues' = IF q # None /\ empty(heap[q])
                             THEN [session_queues EXCEPT ![key] = None]
                             ELSE session_queues
        /\ dispatch' = IF q # None /\ empty(heap[q])
                       THEN [dispatch EXCEPT !.items = SelectSeq(@, LAMBDA x : x # key)]
                       ELSE dispatch
        /\ last' = [op |-> "drop_session_queue", key |-> key, new |-> FALSE]
        /\ UNCHANGED <<heap, outbound, pc, ref, hist>>

\* drop_session_queue(key): synchronous, so the check and the pop are one step.
drop_session_queue(key) ==
    LET q == session_queues[key]
    IN  /\ session_queues' = IF q # None /\ empty(heap[q])
                             THEN [session_queues EXCEPT ![key] = None]
                             ELSE session_queues
        /\ last' = [op |-> "drop_session_queue", key |-> key, new |-> FALSE]
        /\ UNCHANGED <<heap, dispatch, outbound, pc, ref, hist>>

\* Faulty variant: the message is put at the head of the outbound queue.
publish_outbound_lifo(msg) ==
    LET p == wakeup_next([outbound EXCEPT !.items = <<msg>> \o @])
    IN  /\ Len(pub_out) < MaxOutbound
        /\ outbound' = p.q
        /\ pc' = wake(p.woken, "outbound_woken")
        /\ pub_out' = Append(pub_out, msg)
        /\ last' = [op |-> "publish_outbound", key |-> NoKey, new |-> FALSE]
        /\ UNCHANGED <<session_queues, heap, dispatch, ref, pub_in, popped, tokens, got_out>>

\* publish_outbound(msg)
publish_outbound(msg) ==
    LET p == put(outbound, msg)
    IN  /\ Len(pub_out) < MaxOutbound
        /\ outbound' = p.q
        /\ pc' = wake(p.woken, "outbound_woken")
        /\ pub_out' = Append(pub_out, msg)
        /\ last' = [op |-> "publish_outbound", key |-> NoKey, new |-> FALSE]
        /\ UNCHANGED <<session_queues, heap, dispatch, ref, pub_in, popped, tokens, got_out>>

\* consume_outbound() by task t: the call, or its resumption after a wake-up.
consume_outbound(t) ==
    LET r == get(outbound, t)
    IN  /\ pc[t] \in {"idle", "outbound_woken"}
        /\ outbound' = r.q
        /\ pc' = after_get(t, r, "outbound_wait")
        /\ got_out' = IF r.done THEN Append(got_out, r.item) ELSE got_out
        /\ last' = IF r.done THEN [op |-> "consume_outbound", key |-> NoKey, new |-> FALSE] ELSE Suspended
        /\ UNCHANGED <<session_queues, heap, dispatch, ref, pub_in, popped, tokens, pub_out>>

\* task.cancel() on a task suspended in consume_dispatch or consume_outbound:
\* a pending get() future is cancelled, a future that already has its result
\* is left alone and the task is marked to be cancelled when it next runs.
cancel(t) ==
    /\ pc[t] \in {"dispatch_wait", "dispatch_woken", "outbound_wait", "outbound_woken"}
    /\ pc' = [pc EXCEPT ![t] =
                 CASE pc[t] = "dispatch_wait" -> "dispatch_wait_cancelled"
                   [] pc[t] = "dispatch_woken" -> "dispatch_woken_cancelled"
                   [] pc[t] = "outbound_wait" -> "outbound_wait_cancelled"
                   [] pc[t] = "outbound_woken" -> "outbound_woken_cancelled"]
    /\ last' = [op |-> "cancel", key |-> NoKey, new |-> FALSE]
    /\ UNCHANGED <<bus, ref, hist>>

\* consume_dispatch() by task t, resumed with CancelledError at its await.
consume_dispatch_cancelled(t) ==
    LET r == get_cancelled(dispatch, t, pc[t] \in CancelledWoken)
    IN  /\ pc[t] \in {"dispatch_wait_cancelled", "dispatch_woken_cancelled"}
        /\ dispatch' = r.q
        /\ pc' = [u \in Tasks |-> IF u = t THEN "idle"
                                  ELSE IF u \in r.woken THEN "dispatch_woken"
                                  ELSE pc[u]]
        /\ last' = [op |-> "cancelled", key |-> NoKey, new |-> FALSE]
        /\ UNCHANGED <<session_queues, heap, outbound, ref, hist>>

\* consume_outbound() by task t, resumed with CancelledError at its await.
consume_outbound_cancelled(t) ==
    LET r == get_cancelled(outbound, t, pc[t] \in CancelledWoken)
    IN  /\ pc[t] \in {"outbound_wait_cancelled", "outbound_woken_cancelled"}
        /\ outbound' = r.q
        /\ pc' = [u \in Tasks |-> IF u = t THEN "idle"
                                  ELSE IF u \in r.woken THEN "outbound_woken"
                                  ELSE pc[u]]
        /\ last' = [op |-> "cancelled", key |-> NoKey, new |-> FALSE]
        /\ UNCHANGED <<session_queues, heap, dispatch, ref, hist>>

\* inbound_size: the sum of qsize() over the registered queues.
RECURSIVE SumSizes(_)
SumSizes(S) ==
    IF S = {} THEN 0
    ELSE LET k == CHOOSE x \in S : TRUE
         IN  qsize(heap[session_queues[k]]) + SumSizes(S \ {k})

\* Faulty variant: the number of registered queues instead of the sum of their sizes.
inbound_size_queues == Cardinality({k \in Keys : session_queues[k] # None})

inbound_size == SumSizes({k \in Keys : session_queues[k] # None})

\* outbound_size
outbound_size == qsize(outbound)

\* ---- inputs -------------------------------------------------------------
\* The next inbound message for a session: its payload is its publish number.
InboundMessage(key) == [session_key |-> key, id |-> Len(pub_in) + 1]

\* The next outbound message.
OutboundMessage == [id |-> Len(pub_out) + 1]

\* ---- any caller, any order ---------------------------------------------
\* The inbound side: producers, dispatch readers and session queue readers.
InboundNext ==
    \/ \E k \in Keys : publish_inbound(InboundMessage(k)) /\ UNCHANGED <<tok, phase, ready, order>>
    \/ \E t \in Tasks : consume_dispatch(t) /\ UNCHANGED <<tok, phase, ready, order>>
    \/ \E t \in Tasks, k \in Keys : get_session_queue(t, k) /\ UNCHANGED <<tok, phase, ready, order>>
    \/ \E t \in Tasks : session_get(t) /\ UNCHANGED <<tok, phase, ready, order>>
    \/ \E k \in Keys : drop_session_queue(k) /\ UNCHANGED <<tok, phase, ready, order>>

InboundSpec == Init /\ [][InboundNext]_vars

\* The outbound side, interleaved with the bus's own inbound operations.
OutboundNext ==
    \/ publish_outbound(OutboundMessage) /\ UNCHANGED <<tok, phase, ready, order>>
    \/ \E t \in Tasks : consume_outbound(t) /\ UNCHANGED <<tok, phase, ready, order>>
    \/ \E k \in Keys :
          /\ Len(pub_in) < MaxInterleaved
          /\ publish_inbound(InboundMessage(k))
          /\ UNCHANGED <<tok, phase, ready, order>>
    \/ \E t \in Tasks : consume_dispatch(t) /\ UNCHANGED <<tok, phase, ready, order>>
    \/ \E t \in Tasks, k \in Keys : get_session_queue(t, k) /\ UNCHANGED <<tok, phase, ready, order>>
    \/ \E k \in Keys : drop_session_queue(k) /\ UNCHANGED <<tok, phase, ready, order>>

OutboundSpec == Init /\ [][OutboundNext]_vars

\* Every operation, by any task; the publishes of either side are bounded by
\* MaxInterleaved.
Next ==
    \/ \E k \in Keys :
          /\ Len(pub_in) < MaxInterleaved
          /\ publish_inbound(InboundMessage(k))
          /\ UNCHANGED <<tok, phase, ready, order>>
    \/ \E t \in Tasks : consume_dispatch(t) /\ UNCHANGED <<tok, phase, ready, order>>
    \/ \E t \in Tasks, k \in Keys : get_session_queue(t, k) /\ UNCHANGED <<tok, phase, ready, order>>
    \/ \E t \in Tasks : session_get(t) /\ UNCHANGED <<tok, phase, ready, order>>
    \/ \E k \in Keys : drop_session_queue(k) /\ UNCHANGED <<tok, phase, ready, order>>
    \/ /\ Len(pub_out) < MaxInterleaved
       /\ publish_outbound(OutboundMessage)
       /\ UNCHANGED <<tok, phase, ready, order>>
    \/ \E t \in Tasks : consume_outbound(t) /\ UNCHANGED <<tok, phase, ready, order>>

Spec == Init /\ [][Next]_vars

\* ---- the consumer loop --------------------------------------------------
\* Each task runs: key = consume_dispatch(); q = get_session_queue(key);
\* q.get(); then drop_session_queue(key) or not; and again.
LoopDispatch(t) ==
    /\ phase[t] = "dispatch"
    /\ consume_dispatch(t)
    /\ tok' = IF pc'[t] = "idle" THEN [tok EXCEPT ![t] = last'.key] ELSE tok
    /\ phase' = IF pc'[t] = "idle" THEN [phase EXCEPT ![t] = "lookup"] ELSE phase
    /\ UNCHANGED <<ready, order>>

LoopLookup(t) ==
    /\ phase[t] = "lookup"
    /\ get_session_queue(t, tok[t])
    /\ phase' = [phase EXCEPT ![t] = "pop"]
    /\ UNCHANGED <<tok, ready, order>>

LoopPop(t) ==
    /\ phase[t] = "pop"
    /\ session_get(t)
    /\ phase' = IF pc'[t] = "idle" THEN [phase EXCEPT ![t] = "drop"] ELSE phase
    /\ UNCHANGED <<tok, ready, order>>

LoopDrop(t) ==
    /\ phase[t] = "drop"
    /\ drop_session_queue(tok[t])
    /\ phase' = [phase EXCEPT ![t] = "dispatch"]
    /\ UNCHANGED <<tok, ready, order>>

LoopSkipDrop(t) ==
    /\ phase[t] = "drop"
    /\ phase' = [phase EXCEPT ![t] = "dispatch"]
    /\ last' = [op |-> "skip", key |-> tok[t], new |-> FALSE]
    /\ UNCHANGED <<bus, pc, ref, tok, hist, ready, order>>

LoopNext ==
    \/ \E k \in Keys : publish_inbound(InboundMessage(k)) /\ UNCHANGED <<tok, phase, ready, order>>
    \/ \E k \in Keys : drop_session_queue(k) /\ UNCHANGED <<tok, phase, ready, order>>
    \/ \E t \in Tasks : LoopDispatch(t)
    \/ \E t \in Tasks : LoopLookup(t)
    \/ \E t \in Tasks : LoopPop(t)
    \/ \E t \in Tasks : LoopDrop(t)
    \/ \E t \in Tasks : LoopSkipDrop(t)

LoopSpec == Init /\ [][LoopNext]_vars

\* The next step of task t's loop.
LoopStep(t) ==
    LoopDispatch(t) \/ LoopLookup(t) \/ LoopPop(t) \/ LoopDrop(t) \/ LoopSkipDrop(t)

\* The consumers keep running: a consumer that can step eventually does.
LoopFairSpec == LoopSpec /\ \A t \in Tasks : WF_vars(LoopStep(t))

\* The consumer loop that always drops the key it has served, next to the
\* publishers; nothing else touches the registry.
ReclaimNext ==
    \/ \E k \in Keys : publish_inbound(InboundMessage(k)) /\ UNCHANGED <<tok, phase, ready, order>>
    \/ \E t \in Tasks : LoopDispatch(t)
    \/ \E t \in Tasks : LoopLookup(t)
    \/ \E t \in Tasks : LoopPop(t)
    \/ \E t \in Tasks : LoopDrop(t)

ReclaimSpec == Init /\ [][ReclaimNext]_vars

\* ---- readers under the event loop's scheduling ---------------------------
\* A task whose wake-up is in the ready queue: woken by a put, or cancelled.
IsScheduled(p) ==
    p \in {"dispatch_woken", "outbound_woken", "session_woken"}
          \cup CancelledWait \cup CancelledWoken

\* A task suspended in a read that may still return an element.
IsSuspended(p) ==
    p \in {"dispatch_wait", "dispatch_woken", "outbound_wait", "outbound_woken"}

\* The tasks of set S as a sequence (S holds at most two tasks here).
RECURSIVE SeqOf(_)
SeqOf(S) == IF S = {} THEN <<>>
            ELSE LET u == CHOOSE x \in S : TRUE IN <<u>> \o SeqOf(S \ {u})

\* A task whose get() future is pending.
IsWaiting(p) == p \in {"dispatch_wait", "outbound_wait"}

\* call_soon: a task that ran leaves the ready queue, a task woken or
\* cancelled in this step joins it at the back.  The suspension order drops
\* the tasks whose read ended and puts at the back those that suspended, or
\* suspended again, in this step.
Track ==
    /\ ready' = SelectSeq(ready, LAMBDA u : IsScheduled(pc'[u]))
                 \o SeqOf({u \in Tasks : IsScheduled(pc'[u]) /\ ~IsScheduled(pc[u])})
    /\ order' = SelectSeq(order, LAMBDA u : /\ IsSuspended(pc'[u])
                                            /\ ~(IsWaiting(pc'[u]) /\ ~IsWaiting(pc[u])))
                 \o SeqOf({u \in Tasks : IsWaiting(pc'[u]) /\ ~IsWaiting(pc[u])})
    /\ UNCHANGED <<tok, phase>>

\* Task t can take a step: it is running (idle, about to call), or its
\* wake-up is the oldest entry of the ready queue.
Runs(t) == pc[t] = "idle" \/ (ready # <<>> /\ Head(ready) = t)

SchedNext ==
    \/ \E k \in Keys : publish_inbound(InboundMessage(k)) /\ Track
    \/ publish_outbound(OutboundMessage) /\ Track
    \/ \E t \in Tasks : Runs(t) /\ consume_dispatch(t) /\ Track
    \/ \E t \in Tasks : Runs(t) /\ consume_outbound(t) /\ Track
    \/ \E t \in Tasks : cancel(t) /\ Track
    \/ \E t \in Tasks : Runs(t) /\ consume_dispatch_cancelled(t) /\ Track
    \/ \E t \in Tasks : Runs(t) /\ consume_outbound_cancelled(t) /\ Track

SchedSpec == Init /\ [][SchedNext]_vars

\* The event loop runs the oldest entry of its ready queue.
Resume ==
    \E t \in Tasks :
        /\ ready # <<>> /\ Head(ready) = t
        /\ \/ consume_dispatch(t)
           \/ consume_outbound(t)
           \/ consume_dispatch_cancelled(t)
           \/ consume_outbound_cancelled(t)
        /\ Track

\* The event loop never stops running ready tasks.
SchedFairSpec == SchedSpec /\ WF_vars(Resume)

\* ---- helpers of the properties ------------------------------------------
IsPrefix(s, t) == Len(s) <= Len(t) /\ \A i \in 1..Len(s) : s[i] = t[i]

\* The elements of a sequence, as a set.
Range(s) == {s[i] : i \in 1..Len(s)}

\* The messages published for session k, in publish order.
PublishedFor(k) == SelectSeq(pub_in, LAMBDA m : m.session_key = k)

\* The session keys of the published messages, in publish order.
PublishedKeys == [i \in 1..Len(pub_in) |-> pub_in[i].session_key]

\* How many times key k occurs in a sequence of keys.
Count(s, k) == Cardinality({i \in 1..Len(s) : s[i] = k})

\* The items of the queue registered for k (none when k is not registered).
Registered(k) == IF session_queues[k] = None THEN <<>> ELSE heap[session_queues[k]].items

\* ---- C1 -----------------------------------------------------------------
\* C1: for every session key, the messages consumers have popped from its
\* session queue are, in order and without duplicates, the first messages
\* published for that key.
C1_SessionFifo == \A k \in Keys : IsPrefix(popped[k], PublishedFor(k))

\* Two messages of one session were popped while the other session was active.
C1_Witness ==
    /\ Len(popped["u1"]) >= 2
    /\ Len(PublishedFor("u2")) >= 1

\* ---- C2 -----------------------------------------------------------------
\* C2: the keys consume_dispatch has returned are, in order, the session keys
\* of the first published inbound messages, across all sessions.
C2_DispatchOrder == IsPrefix(tokens, PublishedKeys)

\* N = 2 publishes for u1, then one for u2: the tokens came out u1, u1, u2.
C2_Witness == tokens = <<"u1", "u1", "u2">>

\* ---- C3 -----------------------------------------------------------------
\* Every published message has been popped by a consumer or is in the queue
\* registered for its session key.
NoLoss ==
    \A i \in 1..Len(pub_in) :
        \/ pub_in[i] \in Range(popped[pub_in[i].session_key])
        \/ pub_in[i] \in Range(Registered(pub_in[i].session_key))

\* C3: with drops racing with publishes and consumers that pop one message per
\* token, no published message is lost, and when consume_dispatch returns the
\* token of a message, the queue registered for its key (the one
\* get_session_queue returns) holds that message.
C3_NoLossOnDropRace ==
    /\ NoLoss
    /\ last.op = "consume_dispatch" =>
          pub_in[Len(tokens)] \in Range(Registered(last.key))

\* An earlier queue of u1 was dropped, a publish for u1 re-created the queue,
\* and the token of that publish has just been consumed.
C3_Witness ==
    /\ last = [op |-> "consume_dispatch", key |-> "u1", new |-> FALSE]
    /\ \A i \in 1..Len(pub_in) : pub_in[i].session_key = "u1"
    /\ session_queues["u1"] >= 2
    /\ pub_in[Len(tokens)] \in Range(Registered("u1"))

\* ---- C4 -----------------------------------------------------------------
\* C4: every session queue object that holds a message is the queue registered
\* for the session key of its messages, so no non-empty queue has left the
\* registry and every published, unconsumed message is in a registered queue.
C4_NonEmptyRegistered ==
    /\ \A i \in 1..Len(heap) :
          heap[i].items # <<>> =>
              \E k \in Keys :
                  /\ session_queues[k] = i
                  /\ \A m \in Range(heap[i].items) : m.session_key = k
    /\ NoLoss

\* drop_session_queue was called on a queue holding two messages, which is
\* still registered.
C4_Witness ==
    /\ last = [op |-> "drop_session_queue", key |-> "u1", new |-> FALSE]
    /\ Len(Registered("u1")) = 2

\* ---- C5 -----------------------------------------------------------------
\* C5: a step of drop_session_queue(k) taken when k has no registered queue,
\* or when k's queue is not empty, changes neither the registry, nor any
\* session queue, nor the dispatch queue, nor the outbound queue.
C5_DropNoOp ==
    [][\A k \in Keys :
          (/\ last'.op = "drop_session_queue"
           /\ drop_session_queue(k)
           /\ (session_queues[k] = None \/ ~empty(heap[session_queues[k]])))
          => UNCHANGED <<session_queues, heap, dispatch, outbound>>]_vars

\* drop_session_queue was called on u1's queue holding two messages: the queue
\* is still registered with both, in publish order; u2 has no queue.
C5_Witness ==
    /\ last = [op |-> "drop_session_queue", key |-> "u1", new |-> FALSE]
    /\ Len(Registered("u1")) = 2
    /\ Registered("u1") = PublishedFor("u1")
    /\ session_queues["u2"] = None

\* ---- C6 -----------------------------------------------------------------
\* C6: a step of drop_session_queue(k) on a registered, empty queue removes k
\* from the registry and leaves the dispatch queue, the queue objects and the
\* other keys' entries unchanged; a step of get_session_queue(k) taken when k
\* is not registered returns a queue object that did not exist before, empty,
\* and registers it for k.
C6_DropThenRecreate ==
    [][/\ \A k \in Keys :
            (/\ last'.op = "drop_session_queue"
             /\ drop_session_queue(k)
             /\ session_queues[k] # None
             /\ empty(heap[session_queues[k]]))
            => /\ session_queues' = [session_queues EXCEPT ![k] = None]
               /\ UNCHANGED <<dispatch, heap>>
       /\ \A t \in Tasks, k \in Keys :
            (/\ last'.op = "get_session_queue"
             /\ get_session_queue(t, k)
             /\ session_queues[k] = None)
            => /\ ref'[t] \notin 1..Len(heap)
               /\ ref'[t] \in 1..Len(heap')
               /\ empty(heap'[ref'[t]])
               /\ session_queues'[k] = ref'[t]
               /\ UNCHANGED dispatch]_vars

\* A token for u1 is still in the dispatch queue, so u1's queue was registered
\* by a publish and has been dropped since, and get_session_queue("u1") has
\* just created a new, empty queue object.
C6_Witness ==
    /\ last = [op |-> "get_session_queue", key |-> "u1", new |-> TRUE]
    /\ "u1" \in Range(dispatch.items)
    /\ session_queues["u1"] = Len(heap)
    /\ empty(heap[Len(heap)])
    /\ \E t \in Tasks : ref[t] = Len(heap)

\* ---- C7 -----------------------------------------------------------------
\* C7: the messages consume_outbound has returned are, in order, the first
\* messages published with publish_outbound; a step of an inbound operation
\* leaves the outbound queue unchanged, and a step of an outbound operation
\* leaves the session registry, the session queues and the dispatch queue
\* unchanged.
C7_OutboundFifo ==
    /\ [](IsPrefix(got_out, pub_out))
    /\ [][/\ (\/ \E k \in Keys : publish_inbound(InboundMessage(k))
              \/ \E t \in Tasks : consume_dispatch(t)
              \/ \E t \in Tasks, k \in Keys : get_session_queue(t, k)
              \/ \E k \in Keys : drop_session_queue(k))
             => UNCHANGED outbound
          /\ (\/ publish_outbound(OutboundMessage)
              \/ \E t \in Tasks : consume_outbound(t))
             => UNCHANGED <<session_queues, heap, dispatch>>]_vars

\* Two outbound messages were consumed, in publish order, in a run that also
\* published an inbound message and created a session queue.
C7_Witness ==
    /\ last.op = "consume_outbound"
    /\ Len(got_out) = 2
    /\ got_out = pub_out
    /\ Len(pub_in) >= 1
    /\ Len(tokens) >= 1

\* ---- C8 -----------------------------------------------------------------
\* C8: for every session key, the tokens of that key consume_dispatch has
\* returned plus those still in the dispatch queue are as many as the messages
\* published for the key.
C8_OneTokenPerMessage ==
    \A k \in Keys :
        Count(tokens, k) + Count(dispatch.items, k) = Len(PublishedFor(k))

\* Three messages of one session are pending, with three tokens in the
\* dispatch queue.
C8_Witness ==
    /\ Len(Registered("u1")) = 3
    /\ dispatch.items = <<"u1", "u1", "u1">>

\* ---- C9 -----------------------------------------------------------------
\* C9: with consumers that pop one message per token, when consume_dispatch
\* has just returned key k, the queue registered for k holds a message.
C9_TokenHasMessage ==
    last.op = "consume_dispatch" =>
        /\ session_queues[last.key] # None
        /\ ~empty(heap[session_queues[last.key]])

\* A task got a token for u1 while the other task, holding an earlier token
\* for u1, has not popped its message yet.
C9_Witness ==
    /\ last = [op |-> "consume_dispatch", key |-> "u1", new |-> FALSE]
    /\ \E t \in Tasks : phase[t] = "pop" /\ tok[t] = "u1"
    /\ \E t \in Tasks : phase[t] = "lookup" /\ tok[t] = "u1"
    /\ Len(Registered("u1")) >= 2

\* ---- C10 ----------------------------------------------------------------
\* The messages consumers have popped, over all session keys.
RECURSIVE PoppedCount(_)
PoppedCount(S) ==
    IF S = {} THEN 0
    ELSE LET k == CHOOSE x \in S : TRUE
         IN  Len(popped[k]) + PoppedCount(S \ {k})

\* C10: inbound_size is the number of inbound messages published and not yet
\* popped; a publish raises it by one, a pop lowers it by one, and
\* get_session_queue and drop_session_queue leave it unchanged.
C10_InboundSize ==
    /\ [](inbound_size = Len(pub_in) - PoppedCount(Keys))
    /\ [][/\ last'.op = "publish_inbound" => inbound_size' = inbound_size + 1
          /\ last'.op = "get" => inbound_size' = inbound_size - 1
          /\ last'.op \in {"get_session_queue", "drop_session_queue"}
                => inbound_size' = inbound_size]_vars

\* u2's only message was popped and u2's queue dropped, while two messages of
\* u1 are pending: inbound_size is 2.
C10_Witness ==
    /\ last = [op |-> "drop_session_queue", key |-> "u2", new |-> FALSE]
    /\ session_queues["u2"] = None
    /\ Len(popped["u2"]) = 1
    /\ Len(Registered("u1")) = 2
    /\ inbound_size = 2

\* ---- C11 ----------------------------------------------------------------
\* C11: a step of get_session_queue(k) by task t returns, when k is
\* registered, the registered queue object and changes neither the registry
\* nor any queue object; when k is not registered it registers and returns a
\* new empty queue object; in both cases the other keys' entries and every
\* existing queue object are unchanged.
C11_LazyCreation ==
    [][\A t \in Tasks, k \in Keys :
          (last'.op = "get_session_queue" /\ get_session_queue(t, k))
          => /\ session_queues[k] # None
                  => /\ ref'[t] = session_queues[k]
                     /\ UNCHANGED <<session_queues, heap>>
             /\ session_queues[k] = None
                  => /\ ref'[t] = Len(heap) + 1
                     /\ session_queues'[k] = ref'[t]
                     /\ heap'[ref'[t]] = Queue
             /\ \A j \in Keys \ {k} : session_queues'[j] = session_queues[j]
             /\ \A i \in 1..Len(heap) : heap'[i] = heap[i]]_vars

\* Both tasks looked u1 up; the second lookup created nothing: they hold the
\* same queue object, the registered one, with its two messages in order.
C11_Witness ==
    /\ last = [op |-> "get_session_queue", key |-> "u1", new |-> FALSE]
    /\ session_queues["u1"] # None
    /\ \A t \in Tasks : ref[t] = session_queues["u1"]
    /\ Len(Registered("u1")) = 2
    /\ Registered("u1") = PublishedFor("u1")

\* ---- C12 ----------------------------------------------------------------
\* C12: a step of consume_dispatch (consume_outbound) suspends its caller
\* exactly when the queue is empty, leaving the queue and the delivered
\* elements unchanged, and otherwise returns the oldest element and removes
\* it; and, the event loop being fair, a caller suspended while the queue
\* holds an element eventually stops being suspended or the element is taken
\* by another consumer.
C12_ReadStep ==
    \A t \in Tasks :
        /\ (last'.op \in {"consume_dispatch", "suspend"} /\ consume_dispatch(t))
             => /\ (pc'[t] = "dispatch_wait") = empty(dispatch)
                /\ empty(dispatch)
                     => /\ dispatch'.items = dispatch.items
                        /\ tokens' = tokens
                /\ ~empty(dispatch)
                     => /\ pc'[t] = "idle"
                        /\ tokens' = Append(tokens, Head(dispatch.items))
                        /\ dispatch'.items = Tail(dispatch.items)
        /\ (last'.op \in {"consume_outbound", "suspend"} /\ consume_outbound(t))
             => /\ (pc'[t] = "outbound_wait") = empty(outbound)
                /\ empty(outbound)
                     => /\ outbound'.items = outbound.items
                        /\ got_out' = got_out
                /\ ~empty(outbound)
                     => /\ pc'[t] = "idle"
                        /\ got_out' = Append(got_out, Head(outbound.items))
                        /\ outbound'.items = Tail(outbound.items)

C12_SuspendsIffEmpty ==
    /\ [][C12_ReadStep]_vars
    /\ \A t \in Tasks :
          /\ (pc[t] \in {"dispatch_wait", "dispatch_woken"} /\ ~empty(dispatch))
                ~> (pc[t] \notin {"dispatch_wait", "dispatch_woken"} \/ empty(dispatch))
          /\ (pc[t] \in {"outbound_wait", "outbound_woken"} /\ ~empty(outbound))
                ~> (pc[t] \notin {"outbound_wait", "outbound_woken"} \/ empty(outbound))

C12_Witness ==
    /\ pc["t1"] = "dispatch_woken"
    /\ Len(dispatch.items) = 1
    /\ tokens # <<>>
    /\ pc["t2"] = "outbound_wait"
    /\ empty(outbound)
    /\ got_out # <<>>
    /\ last.op = "publish_inbound"

\* ---- C13 ----------------------------------------------------------------
\* C13: cancelling a caller suspended in consume_dispatch or consume_outbound,
\* and the cancelled caller's own step, deliver nothing to it and leave the
\* contents of both queues unchanged; no element is lost (every published
\* element is either delivered or still queued); and while a queue holds an
\* element and a caller is still waiting on it, a wake-up for that queue is
\* pending, so the element published around the cancellation reaches another
\* or a later consumer.
C13_CancelStep ==
    last'.op \in {"cancel", "cancelled"}
        => /\ dispatch'.items = dispatch.items
           /\ outbound'.items = outbound.items
           /\ UNCHANGED <<session_queues, heap, hist>>
           /\ \A t \in Tasks : pc'[t] = "idle" => pc[t] = "idle" \/ ~IsSuspended(pc[t])

C13_NothingLost ==
    /\ tokens \o dispatch.items = PublishedKeys
    /\ got_out \o outbound.items = pub_out

C13_WakeupPending ==
    /\ (~empty(dispatch) /\ \E t \in Tasks : pc[t] = "dispatch_wait")
          => \E u \in Tasks : pc[u] \in {"dispatch_woken", "dispatch_woken_cancelled"}
    /\ (~empty(outbound) /\ \E t \in Tasks : pc[t] = "outbound_wait")
          => \E u \in Tasks : pc[u] \in {"outbound_woken", "outbound_woken_cancelled"}

C13_CancelAllOrNothing ==
    /\ [][C13_CancelStep]_vars
    /\ [](C13_NothingLost /\ C13_WakeupPending)

C13_Witness ==
    /\ last.op = "cancelled"
    /\ pc["t1"] = "idle"
    /\ pc["t2"] = "dispatch_woken"
    /\ order = <<"t2">>
    /\ dispatch.items = <<"u1">>
    /\ tokens = <<>>

\* ---- C14 ----------------------------------------------------------------
\* C14: publish_inbound and publish_outbound can always be taken, whatever the
\* queues hold and whoever waits on them (they never wait and never fail), and
\* one step of publish_inbound appends the message to its session queue and
\* its token to the dispatch queue together, so that in every state each
\* published message has its token and its place in a queue or has been
\* consumed; one step of publish_outbound appends the message to outbound.
C14_AlwaysEnabled ==
    /\ \A k \in Keys :
          (Len(pub_in) < MaxInbound /\ CanAccess(k))
              => ENABLED publish_inbound(InboundMessage(k))
    /\ Len(pub_out) < MaxOutbound => ENABLED publish_outbound(OutboundMessage)

C14_NoHalfPublished ==
    /\ Len(pub_in) = Len(tokens) + Len(dispatch.items)
    /\ Len(pub_in) = inbound_size + PoppedCount(Keys)
    /\ Len(pub_out) = Len(got_out) + Len(outbound.items)

C14_PublishStep ==
    /\ last'.op = "publish_inbound"
         => \E k \in Keys :
              /\ pub_in' = Append(pub_in, InboundMessage(k))
              /\ dispatch'.items = Append(dispatch.items, k)
              /\ heap'[session_queues'[k]].items =
                   Append(IF session_queues[k] = None THEN <<>>
                          ELSE heap[session_queues[k]].items, InboundMessage(k))
    /\ last'.op = "publish_outbound"
         => /\ pub_out' = Append(pub_out, OutboundMessage)
            /\ outbound'.items = Append(outbound.items, OutboundMessage)

C14_PublishNeverSuspends ==
    /\ [](C14_AlwaysEnabled /\ C14_NoHalfPublished)
    /\ [][C14_PublishStep]_vars

C14_Witness ==
    /\ last.op = "publish_inbound"
    /\ pc["t1"] = "outbound_woken"
    /\ pc["t2"] = "dispatch_woken"
    /\ Len(dispatch.items) = 2
    /\ Len(outbound.items) = 1
    /\ Len(pub_in) = 2

\* ---- C15 ----------------------------------------------------------------
\* C15: with several consumer loops draining the dispatch queue, the delivered
\* tokens followed by the queued ones are exactly the published ones, in
\* order (none twice, none skipped); every delivery hands the oldest queued
\* token to exactly one consumer and no consumer obtains a token otherwise;
\* and, the consumers being scheduled fairly, the n-th published token is
\* eventually delivered.
C15_Delivery ==
    /\ tokens' # tokens
         => \E t \in Tasks :
              /\ phase[t] = "dispatch" /\ phase'[t] = "lookup"
              /\ ~empty(dispatch)
              /\ tok'[t] = Head(dispatch.items)
              /\ tokens' = Append(tokens, tok'[t])
              /\ dispatch'.items = Tail(dispatch.items)
              /\ \A u \in Tasks \ {t} : tok'[u] = tok[u] /\ phase'[u] = phase[u]
    /\ (\E t \in Tasks : tok'[t] # tok[t] \/ (phase[t] = "dispatch" /\ phase'[t] = "lookup"))
         => tokens' # tokens

C15_ExactlyOnce ==
    /\ [](tokens \o dispatch.items = PublishedKeys)
    /\ [][C15_Delivery]_vars
    /\ \A n \in 1..MaxInbound : (Len(pub_in) >= n) ~> (Len(tokens) >= n)

C15_Witness ==
    /\ tok = [t \in Tasks |-> IF t = "t1" THEN "u2" ELSE "u1"]
    /\ phase = [t \in Tasks |-> "lookup"]
    /\ tokens = <<"u1", "u2">>
    /\ dispatch.items = <<"u1">>

\* ---- C16 ----------------------------------------------------------------
\* The tasks of the suspension order whose pc is in set P.
InOrder(P) == SelectSeq(order, LAMBDA u : pc[u] \in P)

\* C16 as stated: whenever an element of the dispatch or of the outbound
\* queue is delivered while callers are suspended on that queue, it is
\* delivered to the one that suspended first.
C16_FirstSuspendedReceives ==
    [][/\ tokens' # tokens
          => LET w == InOrder({"dispatch_wait", "dispatch_woken"})
             IN  w # <<>> => pc'[Head(w)] = "idle"
       /\ got_out' # got_out
          => LET w == InOrder({"outbound_wait", "outbound_woken"})
             IN  w # <<>> => pc'[Head(w)] = "idle"]_vars

\* C16 amended: an arriving element wakes the pending caller that suspended
\* first (the pending callers are the queue's waiter list, in suspension
\* order); an element is delivered either to the woken caller that was woken
\* first or to a caller that was not suspended and invoked the read before the
\* woken caller ran, and it is always the oldest element; a woken caller that
\* finds the queue empty suspends again at the back of the waiter list.
C16_Step ==
    /\ \A u \in Tasks :
          /\ (pc[u] = "dispatch_wait" /\ pc'[u] = "dispatch_woken")
                => u = Head(InOrder({"dispatch_wait"}))
          /\ (pc[u] = "outbound_wait" /\ pc'[u] = "outbound_woken")
                => u = Head(InOrder({"outbound_wait"}))
          /\ (pc[u] = "dispatch_woken" /\ pc'[u] = "dispatch_wait")
                => /\ empty(dispatch)
                   /\ dispatch'.getters = Append(dispatch.getters, u)
          /\ (pc[u] = "outbound_woken" /\ pc'[u] = "outbound_wait")
                => /\ empty(outbound)
                   /\ outbound'.getters = Append(outbound.getters, u)
    /\ tokens' # tokens
          => /\ tokens' = Append(tokens, Head(dispatch.items))
             /\ \E t \in Tasks :
                   /\ pc'[t] = "idle"
                   /\ \/ pc[t] = "idle"
                      \/ /\ pc[t] = "dispatch_woken"
                         /\ t = Head(InOrder({"dispatch_woken"}))
    /\ got_out' # got_out
          => /\ got_out' = Append(got_out, Head(outbound.items))
             /\ \E t \in Tasks :
                   /\ pc'[t] = "idle"
                   /\ \/ pc[t] = "idle"
                      \/ /\ pc[t] = "outbound_woken"
                         /\ t = Head(InOrder({"outbound_woken"}))

C16_WaitersInOrder ==
    /\ InOrder({"dispatch_wait"})
         = SelectSeq(dispatch.getters, LAMBDA u : pc[u] = "dispatch_wait")
    /\ InOrder({"outbound_wait"})
         = SelectSeq(outbound.getters, LAMBDA u : pc[u] = "outbound_wait")

C16_WokenInOrder ==
    /\ [][C16_Step]_vars
    /\ []C16_WaitersInOrder

C16_Witness ==
    /\ pc["t1"] = "dispatch_wait"
    /\ pc["t2"] = "dispatch_woken"
    /\ empty(dispatch)
    /\ dispatch.getters = <<"t1">>
    /\ order = <<"t2", "t1">>
    /\ tokens # <<>>

\* ---- C17 ----------------------------------------------------------------
\* C17: a registry entry is removed only by a step of drop_session_queue on
\* its key, and then the queue it named was empty; an entry is never replaced
\* by another queue object; an entry appears only in publish_inbound or
\* get_session_queue; popping a message, the last one included, leaves the
\* registry as it was.
C17_RegistryStep ==
    session_queues' # session_queues
        => \A k \in Keys :
             session_queues'[k] # session_queues[k]
                 => IF session_queues[k] # None
                    THEN /\ last'.op = "drop_session_queue"
                         /\ last'.key = k
                         /\ session_queues'[k] = None
                         /\ empty(heap[session_queues[k]])
                    ELSE /\ last'.op \in {"publish_inbound", "get_session_queue"}
                         /\ last'.key = k

C17_OnlyDropRemoves == [][C17_RegistryStep]_vars

C17_Witness ==
    /\ last = [op |-> "get", key |-> "u1", new |-> FALSE]
    /\ session_queues["u1"] # None
    /\ empty(heap[session_queues["u1"]])
    /\ Len(popped["u1"]) = 1
    /\ tokens = <<"u1">>
    /\ got_out # <<>>
    /\ empty(outbound)

\* ---- C18 ----------------------------------------------------------------
\* C18: with consumers that serve each token K by get_session_queue(K), one
\* pop and drop_session_queue(K), whenever the dispatch queue is empty and
\* every consumer is between two tokens (none holds a token it has not
\* finished serving), the registry holds no session queue.
C18_Quiescent ==
    /\ empty(dispatch)
    /\ \A t \in Tasks : phase[t] = "dispatch"

C18_RegistryReclaimed ==
    C18_Quiescent => \A k \in Keys : session_queues[k] = None

C18_Witness ==
    /\ C18_Quiescent
    /\ last.op = "drop_session_queue"
    /\ Len(pub_in) = 3
    /\ tokens = <<"u1", "u2", "u1">>
    /\ Len(heap) = 2
    /\ pc = [t \in Tasks |-> "idle"]

====
